---------------------------- MODULE Spec2Model ----------------------------
(***************************************************************************)
(* Modes of operation (ECB, CBC, CTR, GCM) over a block-cipher primitive,  *)
(* and the GF(2^n) polynomial arithmetic used for the GCM tag.             *)
(*                                                                         *)
(* Python integers of unbounded size are modelled as bit sequences,        *)
(* most-significant bit first, without leading zeros (<<>> is 0).  Byte    *)
(* strings are sequences of integers 0..255.                               *)
(***************************************************************************)
EXTENDS Integers, Sequences, FiniteSets, TLC

-----------------------------------------------------------------------------
(* Generic helpers                                                         *)

Zeros(k) == [i \in 1..k |-> 0]

BitXor(a, b) == (a + b) % 2

\* drop the leading zero bits
StripZeros(s) ==
    IF \A i \in 1..Len(s) : s[i] = 0 THEN <<>>
    ELSE LET first == CHOOSE i \in 1..Len(s) : s[i] = 1 /\ \A j \in 1..(i - 1) : s[j] = 0
         IN  SubSeq(s, first, Len(s))

RECURSIVE NatToInt(_)
\* a small non-negative number as a Python integer
NatToInt(k) == IF k = 0 THEN <<>> ELSE Append(NatToInt(k \div 2), k % 2)

RECURSIVE PowerOfTwo(_)
PowerOfTwo(k) == IF k = 0 THEN 1 ELSE 2 * PowerOfTwo(k - 1)

\* the 8 bits of a byte, most significant first
ByteBits(b) == [i \in 1..8 |-> (b \div PowerOfTwo(8 - i)) % 2]

BitsByte(s) ==
    s[1] * 128 + s[2] * 64 + s[3] * 32 + s[4] * 16
      + s[5] * 8 + s[6] * 4 + s[7] * 2 + s[8]

Reverse(s) == [i \in 1..Len(s) |-> s[Len(s) + 1 - i]]

\* bytes, most significant byte first, to the bits of the number
BytesBitsBig(b) == [i \in 1..(8 * Len(b)) |-> ByteBits(b[((i - 1) \div 8) + 1])[((i - 1) % 8) + 1]]

\* int.from_bytes(b, "little") and int.from_bytes(b, "big")
from_bytes(b, byteorder) ==
    StripZeros(BytesBitsBig(IF byteorder = "little" THEN Reverse(b) ELSE b))

\* v.to_bytes(length, byteorder): OverflowError when v does not fit
to_bytes_ok(v, length) == Len(v) <= 8 * length

to_bytes(v, length, byteorder) ==
    LET padded == Zeros(8 * length - Len(v)) \o v
        big == [i \in 1..length |-> BitsByte(SubSeq(padded, 8 * (i - 1) + 1, 8 * i))]
    IN  IF byteorder = "little" THEN Reverse(big) ELSE big

\* v << s
ShiftLeft(v, s) == IF v = <<>> THEN <<>> ELSE v \o Zeros(s)

\* v + w on Python integers: binary addition, the carry into a position
\* is generated at a lower position and propagated through the ones between
IntAdd(v, w) ==
    LET L == (IF Len(v) > Len(w) THEN Len(v) ELSE Len(w)) + 1
        A == Zeros(L - Len(v)) \o v
        B == Zeros(L - Len(w)) \o w
        carry(p) == \E q \in (p + 1)..L :
                        /\ A[q] = 1 /\ B[q] = 1
                        /\ \A r \in (p + 1)..(q - 1) : A[r] + B[r] >= 1
    IN  StripZeros([p \in 1..L |-> (A[p] + B[p] + (IF carry(p) THEN 1 ELSE 0)) % 2])

-----------------------------------------------------------------------------
(* galois.py                                                               *)

irreducible_polynomials ==
    [n \in {8, 64, 128, 256, 512} |->
        CASE n = 8   -> <<8, 4, 3, 1, 0>>
          [] n = 64  -> <<64, 4, 3, 1, 0>>
          [] n = 128 -> <<128, 7, 2, 1, 0>>
          [] n = 256 -> <<256, 10, 5, 2, 0>>
          [] n = 512 -> <<512, 8, 5, 2, 0>>]

SeqMax(s) == CHOOSE m \in {s[i] : i \in 1..Len(s)} : \A i \in 1..Len(s) : s[i] <= m

\* the value of a failed construction or operation (an AssertionError)
GPError == [ok |-> FALSE, length |-> 0, bits |-> <<>>, irr_pol |-> <<>>]

\* GaloisPolynomial(num_bits, initial_value, irreducible_polynomial);
\* irreducible_polynomial = <<>> selects the table entry
GP(num_bits, initial_value, irreducible_polynomial) ==
    IF irreducible_polynomial = <<>> /\ num_bits \notin DOMAIN irreducible_polynomials
    THEN GPError
    ELSE LET irr_pol == IF irreducible_polynomial = <<>>
                        THEN irreducible_polynomials[num_bits]
                        ELSE irreducible_polynomial
         IN  IF SeqMax(irr_pol) # num_bits THEN GPError
             ELSE IF Len(initial_value) > num_bits THEN GPError
             ELSE [ok |-> TRUE, length |-> num_bits,
                   bits |-> Zeros(num_bits - Len(initial_value)) \o initial_value,
                   irr_pol |-> irr_pol]

intval(self) == StripZeros(self.bits)

\* mutant: the bits are or-ed
xor_Mut(self, other) ==
    IF ~self.ok \/ ~other.ok \/ self.length # other.length THEN GPError
    ELSE [ok |-> TRUE, length |-> self.length,
          bits |-> [i \in 1..self.length |->
                      IF self.bits[i] + other.bits[i] >= 1 THEN 1 ELSE 0],
          irr_pol |-> self.irr_pol]

\* GaloisPolynomial.xor
xor(self, other) ==
    IF ~self.ok \/ ~other.ok \/ self.length # other.length THEN GPError
    ELSE [ok |-> TRUE, length |-> self.length,
          bits |-> [i \in 1..self.length |-> BitXor(self.bits[i], other.bits[i])],
          irr_pol |-> self.irr_pol]

\* mutant: the operand is shifted one place too far
shifted_val_Mut(self, shift) ==
    [i \in 1..(2 * self.length) |->
        IF i > self.length - shift - 1 /\ i <= 2 * self.length - shift - 1
        THEN self.bits[i - (self.length - shift - 1)] ELSE 0]

\* [0]*(length - shift) + self.bits + [0]*shift
shifted_val(self, shift) ==
    [i \in 1..(2 * self.length) |->
        IF i > self.length - shift /\ i <= 2 * self.length - shift
        THEN self.bits[i - (self.length - shift)] ELSE 0]

\* mutant: the bits of self, not of other, select the shifts
shifted_vals_Mut(self, other) ==
    {shift \in 0..(self.length - 1) : self.bits[self.length - shift] = 1}

\* the shifts whose bit of other is set (index = length - 1 - shift)
shifted_vals(self, other) ==
    {shift \in 0..(self.length - 1) : other.bits[self.length - shift] = 1}

\* column sums of the shifted values, modulo 2
intermediate_polynomial(self, other) ==
    LET svs == shifted_vals(self, other)
        n2 == 2 * self.length
    IN  SubSeq([i \in 1..n2 |-> Cardinality({s \in svs : shifted_val(self, s)[i] = 1}) % 2],
               1, n2)

\* mutant: the constant term of the modulus is left out
irr_pol_list_Mut(self) ==
    [i \in 1..(self.length + 1) |->
        IF \E k \in 1..Len(self.irr_pol) :
              self.irr_pol[k] = self.length + 1 - i /\ self.irr_pol[k] # 0
        THEN 1 ELSE 0]

\* dense (length + 1)-bit pattern of the modulus
irr_pol_list(self) ==
    [i \in 1..(self.length + 1) |->
        IF \E k \in 1..Len(self.irr_pol) : self.irr_pol[k] = self.length + 1 - i
        THEN 1 ELSE 0]

shifted_irr_pol(self, ipl, i) ==
    [j \in 1..(2 * self.length) |->
        IF j > i /\ j <= i + self.length + 1 THEN ipl[j - i] ELSE 0]

\* mutant: the modulus is aligned one position too low
ReduceStep_Mut(self, ipl, ip, i) ==
    IF ip[i + 1] = 1
    THEN LET sip == shifted_irr_pol(self, ipl, i + 1)
             n2 == 2 * self.length
         IN  SubSeq([j \in 1..n2 |-> BitXor(ip[j], sip[j])], 1, n2)
    ELSE ip

\* one pass of the reduction loop body for 0-based position i
ReduceStep(self, ipl, ip, i) ==
    IF ip[i + 1] = 1
    THEN LET sip == shifted_irr_pol(self, ipl, i)
             n2 == 2 * self.length
         IN  SubSeq([j \in 1..n2 |-> BitXor(ip[j], sip[j])], 1, n2)
    ELSE ip

RECURSIVE ReduceLoop(_, _, _, _, _)
\* for i in range(expected_length - self.length): iterations lo..hi-1 in
\* order, the range split in halves to keep the evaluation shallow
ReduceLoop(self, ipl, ip, lo, hi) ==
    IF hi <= lo THEN ip
    ELSE IF hi = lo + 1 THEN ReduceStep(self, ipl, ip, lo)
    ELSE LET mid == (lo + hi) \div 2
             left == ReduceLoop(self, ipl, ip, lo, mid)
         IN  IF Len(left) = 0 THEN left ELSE ReduceLoop(self, ipl, left, mid, hi)

mult(self, other) ==
    IF ~self.ok \/ ~other.ok \/ self.length # other.length THEN GPError
    ELSE LET reduced == ReduceLoop(self, irr_pol_list(self),
                                   intermediate_polynomial(self, other),
                                   0, self.length)
         IN  IF \E i \in 1..self.length : reduced[i] # 0 THEN GPError
             ELSE [ok |-> TRUE, length |-> self.length,
                   bits |-> SubSeq(reduced, self.length + 1, 2 * self.length),
                   irr_pol |-> self.irr_pol]

-----------------------------------------------------------------------------
(* External collaborators: block-cipher primitive, padding scheme and the  *)
(* block sequencer, modelled from their contracts.                         *)

\* encrypt_block of the stub ciphers; every one is a permutation of blocks
encrypt_block(cipher, block) ==
    CASE cipher.kind = "identity" -> block
      [] cipher.kind = "rotate" ->
            [i \in 1..Len(block) |-> block[(i % Len(block)) + 1]]
      [] cipher.kind = "affine" ->
            [i \in 1..Len(block) |-> (3 * block[i] + 7 * i) % 256]
      [] cipher.kind = "incr" ->
            [i \in 1..Len(block) |-> (block[i] + 1) % 256]

\* decrypt_block inverts encrypt_block (171 * 3 = 1 modulo 256)
decrypt_block(cipher, block) ==
    CASE cipher.kind = "identity" -> block
      [] cipher.kind = "rotate" ->
            [i \in 1..Len(block) |-> block[((i + Len(block) - 2) % Len(block)) + 1]]
      [] cipher.kind = "affine" ->
            [i \in 1..Len(block) |-> (171 * (block[i] + 256 * 7 - 7 * i)) % 256]
      [] cipher.kind = "incr" ->
            [i \in 1..Len(block) |-> (block[i] + 255) % 256]

\* padding_scheme.apply: n bytes of value n up to the next block boundary,
\* a whole block of padding when the chunk is already full ("pkcs7"); the
\* other schemes are collaborators that break the length contract: "empty"
\* returns nothing, "unpadded" returns the chunk as it is, "three_blocks"
\* fills up to three blocks
padding_apply(padding_scheme, block_size, data) ==
    LET n == block_size - (Len(data) % block_size)
    IN  CASE padding_scheme = "empty" -> <<>>
          [] padding_scheme = "unpadded" -> data
          [] padding_scheme = "three_blocks" ->
                data \o [i \in 1..(3 * block_size - Len(data)) |-> n]
          [] OTHER -> data \o [i \in 1..n |-> n]

\* padding_scheme.remove: drop as many bytes as the last byte says
padding_remove(padding_scheme, block_size, data) ==
    IF data = <<>> \/ data[Len(data)] > Len(data) THEN data
    ELSE SubSeq(data, 1, Len(data) - data[Len(data)])

\* eof_signal_iterator: the (chunk, is_last) pairs of a non-empty source
eof_signal_iterator(block_iterator) ==
    [i \in 1..Len(block_iterator) |-> <<block_iterator[i], i = Len(block_iterator)>>]

-----------------------------------------------------------------------------
(* modes.py                                                                *)

\* mutant: the bytes are added instead of xor-ed
_xor_Mut(block1, block2) ==
    LET n == IF Len(block1) < Len(block2) THEN Len(block1) ELSE Len(block2)
    IN  [i \in 1..n |-> (block1[i] + block2[i]) % 256]

\* ModeOfOperation._xor: zip stops at the shorter operand
_xor(block1, block2) ==
    LET n == IF Len(block1) < Len(block2) THEN Len(block1) ELSE Len(block2)
        bx(a, b) == BitsByte([k \in 1..8 |-> BitXor(ByteBits(a)[k], ByteBits(b)[k])])
    IN  [i \in 1..n |-> bx(block1[i], block2[i])]

\* the frame of a generator that has been created and not yet pulled
NewGen(op, input) ==
    [op |-> op, status |-> "running", pc |-> "start", input |-> input, pos |-> 1,
     out |-> <<>>, counter |-> 0, rolling_polynomial |-> GPError,
     ek_nonce |-> GPError, Ek_0 |-> GPError, A |-> GPError, ciphertext |-> <<>>,
     verified |-> "none"]

NoGen == [NewGen("none", <<>>) EXCEPT !.status = "idle"]

Yield(g, element) == [g EXCEPT !.out = Append(@, element)]
Return(g) == [g EXCEPT !.status = "done"]
Raise(g) == [g EXCEPT !.status = "error"]

Exhausted(g) == g.pos > Len(g.input)
Data(g) == eof_signal_iterator(g.input)[g.pos][1]
Eof(g) == eof_signal_iterator(g.input)[g.pos][2]

\* mutant: a padded chunk of any other length is encrypted and emitted
ECB_encrypt_Mut(self, g) ==
    IF Exhausted(g) THEN [self |-> self, g |-> Return(g)]
    ELSE LET data == Data(g)
             block == IF Eof(g)
                      THEN padding_apply(self.padding_scheme, self.block_size, data)
                      ELSE data
         IN  [self |-> self,
              g |-> [Yield(g, encrypt_block(self.cipher, block)) EXCEPT !.pos = @ + 1]]

\* ECB.encrypt: one resumption of the generator
ECB_encrypt(self, g) ==
    IF Exhausted(g) THEN [self |-> self, g |-> Return(g)]
    ELSE LET data == Data(g)
             eof == Eof(g)
             bs == self.block_size
             block == padding_apply(self.padding_scheme, bs, data)
         IN  IF ~eof
             THEN [self |-> self,
                   g |-> [Yield(g, encrypt_block(self.cipher, data)) EXCEPT !.pos = @ + 1]]
             ELSE IF Len(block) = bs
             THEN [self |-> self,
                   g |-> [Yield(g, encrypt_block(self.cipher, block)) EXCEPT !.pos = @ + 1]]
             ELSE IF Len(block) = bs * 2
             THEN [self |-> self,
                   g |-> [Yield(g, encrypt_block(self.cipher, SubSeq(block, 1, bs))
                                     \o encrypt_block(self.cipher, SubSeq(block, bs + 1, 2 * bs)))
                            EXCEPT !.pos = @ + 1]]
             ELSE [self |-> self, g |-> Raise(g)]

\* ECB.decrypt: one resumption of the generator
ECB_decrypt(self, g) ==
    IF Exhausted(g) THEN [self |-> self, g |-> Return(g)]
    ELSE LET data == Data(g)
             eof == Eof(g)
             plaintext == decrypt_block(self.cipher, data)
             block == IF ~eof THEN plaintext
                      ELSE padding_remove(self.padding_scheme, self.block_size, plaintext)
         IN  [self |-> self, g |-> [Yield(g, block) EXCEPT !.pos = @ + 1]]

\* CBC.encrypt, the body of the loop after the IV has been dealt with
CBC_encrypt_block(self, g) ==
    LET data == Data(g)
        eof == Eof(g)
        bs == self.block_size
        block == padding_apply(self.padding_scheme, bs, data)
        one == encrypt_block(self.cipher, _xor(data, self.cipher_block))
        padded == encrypt_block(self.cipher, _xor(block, self.cipher_block))
        last_block == encrypt_block(self.cipher, _xor(SubSeq(block, 1, bs), self.cipher_block))
        extra == encrypt_block(self.cipher, _xor(SubSeq(block, bs + 1, 2 * bs), last_block))
        cb == IF ~eof THEN one
              ELSE IF Len(block) = bs THEN padded
              ELSE last_block \o extra
    IN  IF eof /\ Len(block) # bs /\ Len(block) # 2 * bs
        THEN [self |-> self, g |-> Raise(g)]
        ELSE [self |-> [self EXCEPT !.cipher_block = cb],
              g |-> [Yield(g, cb) EXCEPT !.pos = @ + 1, !.pc = "loop"]]

\* mutant: the IV becomes the chaining value but is not emitted
CBC_encrypt_Mut(self, g) ==
    IF Exhausted(g) THEN [self |-> self, g |-> Return(g)]
    ELSE IF self.cipher_block = <<>>
    THEN CBC_encrypt_block([self EXCEPT !.cipher_block = self.iv], g)
    ELSE CBC_encrypt_block(self, g)

\* CBC.encrypt: one resumption of the generator; None is the empty value
CBC_encrypt(self, g) ==
    IF g.pc = "after_iv" THEN CBC_encrypt_block(self, g)
    ELSE IF Exhausted(g) THEN [self |-> self, g |-> Return(g)]
    ELSE IF self.cipher_block = <<>>
    THEN [self |-> [self EXCEPT !.cipher_block = self.iv],
          g |-> [Yield(g, self.iv) EXCEPT !.pc = "after_iv"]]
    ELSE CBC_encrypt_block(self, g)

\* mutant: the recovered plaintext becomes the chaining value
CBC_decrypt_chain_Mut(data, plaintext) == plaintext

\* CBC.decrypt: the chaining value after a block is the block just consumed
CBC_decrypt_chain(data, plaintext) == data

\* CBC.decrypt: one resumption of the generator
CBC_decrypt(self, g) ==
    LET first == g.pc = "start"
        cipher_block == IF first THEN g.input[1] ELSE self.cipher_block
        g1 == IF first THEN [g EXCEPT !.pos = 2, !.pc = "loop"] ELSE g
        self1 == [self EXCEPT !.cipher_block = cipher_block]
    IN  IF Exhausted(g1) THEN [self |-> self1, g |-> Return(g1)]
        ELSE LET data == Data(g1)
                 eof == Eof(g1)
                 plaintext == _xor(decrypt_block(self.cipher, data), cipher_block)
                 block == IF ~eof THEN plaintext
                          ELSE padding_remove(self.padding_scheme, self.block_size, plaintext)
             IN  [self |-> [self EXCEPT !.cipher_block = CBC_decrypt_chain(data, plaintext)],
                  g |-> [Yield(g1, block) EXCEPT !.pos = @ + 1]]

\* CTR._get_xor_block and GCM._get_xor_block (the same code): <<>> when the
\* counter does not fit or nonce and counter do not fill a block
_get_xor_block_int(self, c) ==
    LET nonce_and_counter == self.nonce \o to_bytes(c, Len(self.nonce), "big")
    IN  IF ~to_bytes_ok(c, Len(self.nonce)) THEN <<>>
        ELSE IF Len(nonce_and_counter) # self.block_size THEN <<>>
        ELSE encrypt_block(self.cipher, nonce_and_counter)

\* mutant: the keystream block of counter 0 is used for every counter
_get_xor_block_Mut(self, counter) == _get_xor_block_int(self, <<>>)

\* the same on the small counters a generator of the model reaches
_get_xor_block(self, counter) == _get_xor_block_int(self, NatToInt(counter))

\* mutant: a counter that no longer fits its width starts again at 0
CTR_encrypt_Mut(self, g) ==
    IF Exhausted(g) THEN [self |-> self, g |-> Return(g)]
    ELSE LET data == Data(g)
             full == _get_xor_block(self, g.counter % PowerOfTwo(8 * Len(self.nonce)))
             xor_block == IF Eof(g) /\ Len(data) < self.block_size
                          THEN SubSeq(full, 1, Len(data)) ELSE full
         IN  IF full = <<>> THEN [self |-> self, g |-> Raise(g)]
             ELSE [self |-> self,
                   g |-> [Yield(g, _xor(data, xor_block))
                            EXCEPT !.pos = @ + 1, !.counter = @ + 1]]

\* CTR.encrypt: one resumption of the generator
CTR_encrypt(self, g) ==
    IF Exhausted(g) THEN [self |-> self, g |-> Return(g)]
    ELSE LET data == Data(g)
             eof == Eof(g)
             full == _get_xor_block(self, g.counter)
             xor_block == IF eof /\ Len(data) < self.block_size
                          THEN SubSeq(full, 1, Len(data)) ELSE full
         IN  IF full = <<>> THEN [self |-> self, g |-> Raise(g)]
             ELSE [self |-> self,
                   g |-> [Yield(g, _xor(data, xor_block))
                            EXCEPT !.pos = @ + 1, !.counter = @ + 1]]

\* CTR.decrypt returns self.encrypt(block_iterator)
CTR_decrypt(self, g) == CTR_encrypt(self, g)

\* GCM: the length block folded in after the data, and the masked tag
GCM_gmac(self, g) ==
    LET num_bits == 8 * self.block_size
        extra_block == IntAdd(ShiftLeft(NatToInt(Len(self.header)), num_bits \div 2),
                              NatToInt(g.counter))
        extra_block_gp == GP(num_bits, extra_block, <<>>)
        rolling_polynomial == mult(xor(g.rolling_polynomial, extra_block_gp), g.Ek_0)
    IN  xor(rolling_polynomial, g.ek_nonce)

\* mutant: the ciphertext block is not xor-ed into the accumulator
GCM_roll_Mut(self, g, ciphertext) == mult(g.rolling_polynomial, g.Ek_0)

\* GCM: xor one ciphertext block into the accumulator and multiply by Ek_0
GCM_roll(self, g, ciphertext) ==
    mult(xor(g.rolling_polynomial,
             GP(8 * self.block_size, from_bytes(ciphertext, "little"), <<>>)),
         g.Ek_0)

\* GCM: Ek_0 = E(0) as a field element
GCM_Ek_0(self) ==
    GP(8 * self.block_size,
       from_bytes(encrypt_block(self.cipher, Zeros(self.block_size)), "little"), <<>>)

\* mutant: the header is emitted as supplied
GCM_header_bytes_Mut(self) == self.header

\* GCM.encrypt: the header as one block, through an integer and back
GCM_header_bytes(self) ==
    to_bytes(from_bytes(self.header, "little"), self.block_size, "little")

\* mutant: the recovered data is authenticated
GCM_decrypt_C_Mut(ciphertext, data) == data

\* GCM.decrypt: the block authenticated is the ciphertext, not the recovered data
GCM_decrypt_C(ciphertext, data) == ciphertext

\* GCM.encrypt: one resumption of the generator
GCM_encrypt(self, g) ==
    LET num_bits == 8 * self.block_size
        bs == self.block_size
    IN
    CASE g.pc = "start" ->
            LET xb == _get_xor_block(self, 0)
                ek_nonce == GP(num_bits, from_bytes(xb, "little"), <<>>)
                A == GP(num_bits, from_bytes(self.header, "little"), <<>>)
                header_bytes == GCM_header_bytes(self)
            IN  IF xb = <<>> \/ ~ek_nonce.ok \/ Len(self.header) > bs \/ ~A.ok
                THEN [self |-> self, g |-> Raise(g)]
                ELSE [self |-> self,
                      g |-> [Yield(g, header_bytes) EXCEPT !.pc = "after_header",
                               !.ek_nonce = ek_nonce, !.counter = 1, !.A = A]]
      [] g.pc \in {"after_header", "loop"} ->
            LET g1 == IF g.pc = "loop" THEN g
                      ELSE [g EXCEPT !.pc = "loop", !.Ek_0 = GCM_Ek_0(self),
                              !.rolling_polynomial = mult(g.A, GCM_Ek_0(self))]
            IN  IF ~g1.rolling_polynomial.ok THEN [self |-> self, g |-> Raise(g1)]
                ELSE IF Exhausted(g1)
                THEN LET gmac == GCM_gmac(self, g1)
                     IN  IF ~gmac.ok THEN [self |-> self, g |-> Raise(g1)]
                         ELSE [self |-> self,
                               g |-> [Yield(g1, to_bytes(intval(gmac), bs, "little"))
                                        EXCEPT !.pc = "after_tag"]]
                ELSE LET data == Data(g1)
                         xor_block == _get_xor_block(self, g1.counter)
                         ciphertext == _xor(data, xor_block)
                         rolling_polynomial == GCM_roll(self, g1, ciphertext)
                     IN  IF xor_block = <<>> \/ ~rolling_polynomial.ok
                         THEN [self |-> self, g |-> Raise(g1)]
                         ELSE [self |-> self,
                               g |-> [Yield(g1, ciphertext) EXCEPT !.pos = @ + 1,
                                        !.counter = @ + 1, !.ciphertext = ciphertext,
                                        !.rolling_polynomial = rolling_polynomial]]
      [] g.pc = "after_tag" -> [self |-> self, g |-> Return(g)]

\* mutant: the loop does not stop at the last element, which is decrypted
\* and emitted as well before the comparison
GCM_decrypt_Mut(self, g) ==
    LET num_bits == 8 * self.block_size
        first == g.pc = "start"
        xb == _get_xor_block(self, 0)
        ek_nonce == GP(num_bits, from_bytes(xb, "little"), <<>>)
        A == GP(num_bits, from_bytes(g.input[1], "little"), <<>>)
        g1 == IF ~first THEN g
              ELSE [g EXCEPT !.pc = "loop", !.ek_nonce = ek_nonce, !.counter = 1,
                      !.pos = 2, !.A = A, !.Ek_0 = GCM_Ek_0(self),
                      !.rolling_polynomial = mult(A, GCM_Ek_0(self))]
    IN  IF first /\ (xb = <<>> \/ ~ek_nonce.ok \/ Len(g.input) = 1 \/ ~A.ok)
        THEN [self |-> self, g |-> Raise(g)]
        ELSE LET ciphertext == Data(g1)
                 data == _xor(ciphertext, _get_xor_block(self, g1.counter))
                 gmac_bytes == to_bytes(intval(GCM_gmac(self, g1)), self.block_size, "little")
             IN  IF Eof(g1)
                 THEN [self |-> self,
                       g |-> [Return(Yield(g1, data)) EXCEPT !.ciphertext = ciphertext,
                                !.verified = IF gmac_bytes = ciphertext
                                             THEN "Message verified correctly"
                                             ELSE "Message not verified"]]
                 ELSE [self |-> self,
                       g |-> [Yield(g1, data) EXCEPT !.pos = @ + 1, !.counter = @ + 1,
                                !.ciphertext = ciphertext,
                                !.rolling_polynomial = GCM_roll(self, g1, ciphertext)]]

\* GCM.decrypt: one resumption of the generator
GCM_decrypt(self, g) ==
    LET num_bits == 8 * self.block_size
        bs == self.block_size
        first == g.pc = "start"
        xb == _get_xor_block(self, 0)
        ek_nonce == GP(num_bits, from_bytes(xb, "little"), <<>>)
        header_bytes == g.input[1]
        b == Len(g.input) = 1
        A == GP(num_bits, from_bytes(header_bytes, "little"), <<>>)
        g1 == IF ~first THEN g
              ELSE [g EXCEPT !.pc = "loop", !.ek_nonce = ek_nonce, !.counter = 1,
                      !.pos = 2, !.A = A, !.Ek_0 = GCM_Ek_0(self),
                      !.rolling_polynomial = mult(A, GCM_Ek_0(self))]
    IN  IF first /\ (xb = <<>> \/ ~ek_nonce.ok \/ b \/ ~A.ok \/ ~g1.rolling_polynomial.ok)
        THEN [self |-> self, g |-> Raise(g)]
        ELSE LET ciphertext == Data(g1)
                 eof == Eof(g1)
                 xor_block == _get_xor_block(self, g1.counter)
                 data == _xor(ciphertext, xor_block)
                 rolling_polynomial == GCM_roll(self, g1, GCM_decrypt_C(ciphertext, data))
                 gmac == GCM_gmac(self, g1)
                 gmac_bytes == to_bytes(intval(gmac), bs, "little")
             IN  IF eof
                 THEN IF ~gmac.ok THEN [self |-> self, g |-> Raise(g1)]
                      ELSE [self |-> self,
                            g |-> [Return(g1) EXCEPT !.ciphertext = ciphertext,
                                     !.verified = IF gmac_bytes = ciphertext
                                                  THEN "Message verified correctly"
                                                  ELSE "Message not verified"]]
                 ELSE IF xor_block = <<>> \/ ~rolling_polynomial.ok
                 THEN [self |-> self, g |-> Raise(g1)]
                 ELSE [self |-> self,
                       g |-> [Yield(g1, data) EXCEPT !.pos = @ + 1, !.counter = @ + 1,
                                !.ciphertext = ciphertext,
                                !.rolling_polynomial = rolling_polynomial]]

\* one resumption of the generator g created on object self
Resume(self, g) ==
    CASE self.mode = "ECB" /\ g.op = "encrypt" -> ECB_encrypt(self, g)
      [] self.mode = "ECB" /\ g.op = "decrypt" -> ECB_decrypt(self, g)
      [] self.mode = "CBC" /\ g.op = "encrypt" -> CBC_encrypt(self, g)
      [] self.mode = "CBC" /\ g.op = "decrypt" -> CBC_decrypt(self, g)
      [] self.mode = "CTR" /\ g.op = "encrypt" -> CTR_encrypt(self, g)
      [] self.mode = "CTR" /\ g.op = "decrypt" -> CTR_decrypt(self, g)
      [] self.mode = "GCM" /\ g.op = "encrypt" -> GCM_encrypt(self, g)
      [] self.mode = "GCM" /\ g.op = "decrypt" -> GCM_decrypt(self, g)

RECURSIVE Drive(_, _)
\* the consumer pulls the generator until it stops
Drive(self, g) ==
    IF g.status # "running" THEN [self |-> self, g |-> g]
    ELSE LET r == Resume(self, g) IN Drive(r.self, r.g)

-----------------------------------------------------------------------------
(* The objects and streams explored                                        *)

\* most chunks in one input stream
MaxChunks == 2
\* most encrypt/decrypt calls in one behaviour
MaxSessions == 2

Modes == {"ECB", "CBC", "CTR", "GCM"}

\* the field of GCM has 8 * block_size bits, so GCM needs a block of 8 bytes
\* or more; the other modes run on a 2-byte block
BlockSizeOf(m) == IF m = "GCM" THEN 8 ELSE 2

CiphersOf(m) ==
    {[kind |-> k, block_size |-> BlockSizeOf(m)] :
        k \in IF m = "GCM" THEN {"identity", "affine", "incr"}
              ELSE {"identity", "rotate", "affine"}}

\* the full block that precedes the final chunk
LeadBlock(bs) == IF bs = 2 THEN <<7, 0>> ELSE <<1, 2, 3, 4, 5, 6, 7, 255>>

\* the full block that ends a stream
LastBlock(bs) == IF bs = 2 THEN <<200, 1>> ELSE <<128, 0, 0, 0, 0, 0, 0, 9>>

\* final chunks: a full block and shorter ones
FinalChunks(bs) ==
    {LastBlock(bs)} \cup (IF bs = 2 THEN {<<200>>, <<>>} ELSE {<<1, 2, 3>>})

\* input streams of encrypt: full blocks followed by one final chunk
Streams(bs) ==
    {[i \in 1..(k - 1) |-> LeadBlock(bs)] \o <<c>> :
        k \in 1..MaxChunks, c \in FinalChunks(bs)}

\* input streams of decrypt that no encrypt produced: full blocks only
BlockStreams(bs) ==
    {[i \in 1..(k - 1) |-> LeadBlock(bs)] \o <<LastBlock(bs)>> : k \in 1..MaxChunks}

IVs == {<<0, 0>>, <<17, 250>>}
NoncesOf(m) ==
    CASE m = "CTR" -> {<<0>>, <<9>>}
      [] m = "GCM" -> {<<1, 2, 3, 4>>}
      [] OTHER -> {<<>>}
Headers == {<<>>, <<5, 6>>, <<1, 2, 3, 4, 5, 6, 7, 8>>, <<1, 2, 3, 4, 5, 6, 7, 8, 9>>}

RECURSIVE Concat(_)
Concat(elements) ==
    IF elements = <<>> THEN <<>> ELSE elements[1] \o Concat(Tail(elements))

\* element with its k-th bit inverted, bits counted from the first byte's top bit
FlipBit(element, k) ==
    LET i == ((k - 1) \div 8) + 1
        bits == ByteBits(element[i])
        flipped == [j \in 1..8 |-> IF j = ((k - 1) % 8) + 1 THEN 1 - bits[j] ELSE bits[j]]
    IN  [element EXCEPT ![i] = BitsByte(flipped)]

\* a byte string cut into blocks of bs bytes (a shorter last one if any remain)
Resplit(bytes, bs) ==
    [i \in 1..((Len(bytes) + bs - 1) \div bs) |->
        SubSeq(bytes, bs * (i - 1) + 1, IF bs * i < Len(bytes) THEN bs * i ELSE Len(bytes))]

-----------------------------------------------------------------------------
VARIABLES
    mode, cipher, padding_scheme, iv, nonce, header,   \* constructor arguments
    cipher_block,     \* CBC.cipher_block, <<>> for None
    gen,              \* the generator of the current encrypt/decrypt call
    sessions,         \* calls made so far
    used,             \* the object has served a call since its construction
    first,            \* the current call is the first one on its object
    src,              \* where the input of the current call comes from
    plain, wire, wire_first,  \* last completed encrypt: input, output, first call?
    field             \* field elements under test and the result of the last operation

vars == <<mode, cipher, padding_scheme, iv, nonce, header, cipher_block, gen,
          sessions, used, first, src, plain, wire, wire_first, field>>
config == <<mode, cipher, padding_scheme, iv, nonce, header>>
session == <<cipher_block, gen, sessions, used, first, src, plain, wire, wire_first>>

NoField == [op |-> "none", a |-> GPError, b |-> GPError, result |-> GPError]

\* the mode object as the methods see it
Object(cb) ==
    [mode |-> mode, cipher |-> cipher, block_size |-> cipher.block_size,
     padding_scheme |-> padding_scheme, iv |-> iv, nonce |-> nonce,
     header |-> header, cipher_block |-> cb]
Self == Object(cipher_block)
\* ECB.__init__, CBC.__init__, CTR.__init__, GCM.__init__
Fresh == Object(<<>>)

Init ==
    /\ mode \in Modes
    /\ cipher \in CiphersOf(mode)
    /\ padding_scheme = "pkcs7"
    /\ iv \in (IF mode = "CBC" THEN IVs ELSE {<<>>})
    /\ nonce \in NoncesOf(mode)
    /\ header \in (IF mode = "GCM" THEN Headers ELSE {<<>>})
    /\ cipher_block = <<>>
    /\ gen = NoGen
    /\ sessions = 0
    /\ used = FALSE
    /\ first = FALSE
    /\ src = "none"
    /\ plain = <<>>
    /\ wire = <<>>
    /\ wire_first = FALSE
    /\ field = NoField

Call(op, input, from) ==
    /\ gen.status # "running"
    /\ sessions < MaxSessions
    /\ gen' = NewGen(op, input)
    /\ sessions' = sessions + 1
    /\ first' = ~used
    /\ used' = TRUE
    /\ src' = from
    /\ UNCHANGED <<config, cipher_block, plain, wire, wire_first, field>>

\* encrypt(block_iterator) on some input stream
StartEncrypt == \E input \in Streams(cipher.block_size) : Call("encrypt", input, "plain")

\* decrypt(block_iterator) on the output of the last completed encrypt
StartDecryptWire ==
    /\ wire # <<>>
    /\ Call("decrypt",
            IF mode \in {"ECB", "CBC"} THEN Resplit(Concat(wire), cipher.block_size)
            ELSE wire,
            "wire")

\* decrypt(block_iterator) on blocks that were not produced by encrypt
StartDecryptOther ==
    \E input \in BlockStreams(cipher.block_size) : Call("decrypt", input, "other")

\* next() on the generator: it runs to its next yield, its end or an error
Pull ==
    /\ gen.status = "running"
    /\ \E r \in {Resume(Self, gen)} :
         LET completed == r.g.status = "done" /\ r.g.op = "encrypt"
         IN
           /\ gen' = r.g
           /\ cipher_block' = r.self.cipher_block
           /\ plain' = IF completed THEN r.g.input ELSE plain
           /\ wire' = IF completed THEN r.g.out ELSE wire
           /\ wire_first' = IF completed THEN first ELSE wire_first
    /\ UNCHANGED <<config, sessions, used, first, src, field>>

\* the object is dropped with its finished generator and a new one is
\* constructed with the same arguments
NewObject ==
    /\ gen.status # "running"
    /\ used
    /\ cipher_block' = <<>>
    /\ used' = FALSE
    /\ gen' = NoGen
    /\ first' = FALSE
    /\ src' = "none"
    /\ UNCHANGED <<config, sessions, plain, wire, wire_first, field>>

\* GCM decrypt on the output of the first encrypt with one bit inverted in a
\* ciphertext block or in the tag block (the header block is left alone)
StartDecryptTampered ==
    /\ mode = "GCM"
    /\ wire # <<>>
    /\ wire_first
    /\ sessions = 1
    /\ \A i \in 1..Len(plain) : Len(plain[i]) = cipher.block_size
    /\ \E e \in 2..Len(wire) : \E k \in 1..(8 * Len(wire[e])) :
          Call("decrypt", [wire EXCEPT ![e] = FlipBit(wire[e], k)], "tampered")

Next == StartEncrypt \/ StartDecryptWire \/ StartDecryptOther \/ Pull \/ NewObject

Spec == Init /\ [][Next]_vars

\* one GCM object whose output is tampered with before decryption
InitTamper ==
    Init /\ mode = "GCM" /\ header = <<5, 6>> /\ cipher.kind \in {"identity", "affine"}
NextTamper == StartEncrypt \/ Pull \/ StartDecryptWire \/ StartDecryptTampered
SpecTamper == InitTamper /\ [][NextTamper]_vars

-----------------------------------------------------------------------------
(* Properties of the modes                                                 *)

AllFull(stream) == \A i \in 1..Len(stream) : Len(stream[i]) = cipher.block_size

IsPrefix(p, q) == Len(p) <= Len(q) /\ \A i \in 1..Len(p) : p[i] = q[i]

\* the output of a call of op on input made on a newly constructed object
FreshOutput(op, input) == Drive(Fresh, NewGen(op, input)).g.out

\* C1: GCM decrypt over the elements GCM encrypt produced from full
\* plaintext blocks emits exactly those plaintext blocks in order, raises no
\* error, and the tag it recomputes equals the last input element.
GCMRoundTrip ==
    (mode = "GCM" /\ gen.op = "decrypt" /\ src = "wire" /\ AllFull(plain)) =>
        /\ gen.status # "error"
        /\ IsPrefix(gen.out, plain)
        /\ (gen.status = "done" =>
              /\ gen.out = plain
              /\ gen.ciphertext = wire[Len(wire)]
              /\ gen.verified = "Message verified correctly")

\* a verified decrypt of a stream of MaxChunks blocks under a non-zero Ek_0
GCMRoundTripWitness ==
    /\ mode = "GCM" /\ gen.op = "decrypt" /\ src = "wire" /\ AllFull(plain)
    /\ gen.status = "done"
    /\ Len(plain) = MaxChunks
    /\ Len(header) = 2
    /\ cipher.kind = "affine"
    /\ gen.out = plain
    /\ gen.verified = "Message verified correctly"

\* Ek_0 = E(0) is not the zero block
NonZeroEk0 == encrypt_block(cipher, Zeros(cipher.block_size)) # Zeros(cipher.block_size)

TamperOutcome ==
    /\ gen.status # "error"
    /\ (gen.status = "done" =>
          /\ gen.verified = "Message not verified"
          /\ Len(gen.out) = Len(plain)
          /\ \A i \in 1..Len(gen.out) : Len(gen.out[i]) = cipher.block_size)

\* C2 as stated: for every cipher, one inverted bit in a ciphertext block or
\* in the tag block makes verification fail, while decrypt emits as many
\* block-sized elements as there were plaintext blocks and raises no error.
TamperDetected ==
    (mode = "GCM" /\ gen.op = "decrypt" /\ src = "tampered") => TamperOutcome

\* C2 amended: the same for every cipher whose encrypt_block(0) is not 0.
TamperDetectedNonZeroEk0 ==
    (mode = "GCM" /\ gen.op = "decrypt" /\ src = "tampered" /\ NonZeroEk0) => TamperOutcome

\* a failed verification after a bit of the first of MaxChunks ciphertext
\* blocks was inverted
TamperDetectedWitness ==
    /\ mode = "GCM" /\ gen.op = "decrypt" /\ src = "tampered" /\ NonZeroEk0
    /\ gen.status = "done"
    /\ Len(plain) = MaxChunks
    /\ gen.input[2] # wire[2]
    /\ gen.input[Len(wire)] = wire[Len(wire)]
    /\ gen.verified = "Message not verified"

\* C3: for ECB and CBC, decrypt on a new object over the re-split output
\* of encrypt on a new object emits the bytes of the original plaintext,
\* whatever its length.
PaddedRoundTrip ==
    (mode \in {"ECB", "CBC"} /\ gen.op = "decrypt" /\ src = "wire" /\ wire_first /\ first) =>
        /\ gen.status # "error"
        /\ (gen.status = "done" => Concat(gen.out) = Concat(plain))

\* a CBC round trip of a plaintext whose final chunk is a full block, so
\* that padding added a block
PaddedRoundTripWitness ==
    /\ mode = "CBC" /\ gen.op = "decrypt" /\ src = "wire" /\ wire_first /\ first
    /\ gen.status = "done"
    /\ cipher.kind = "affine"
    /\ Len(plain) = MaxChunks
    /\ Len(plain[Len(plain)]) = cipher.block_size
    /\ Len(gen.input) = MaxChunks + 2
    /\ Concat(gen.out) = Concat(plain)

\* C4: CTR decrypt on x emits what CTR encrypt emits on x; every output
\* chunk is as long as its input chunk; decrypt of the output of encrypt is
\* the plaintext.
CTRSymmetry ==
    mode = "CTR" =>
        /\ gen.status # "error"
        /\ Len(gen.out) <= Len(gen.input)
        /\ \A i \in 1..Len(gen.out) : Len(gen.out[i]) = Len(gen.input[i])
        /\ (gen.status = "done" =>
              /\ Len(gen.out) = Len(gen.input)
              /\ (gen.op = "decrypt" => gen.out = FreshOutput("encrypt", gen.input))
              /\ (gen.op = "decrypt" /\ src = "wire" => gen.out = plain))

\* a CTR decrypt that recovers a plaintext ending in a short chunk
CTRSymmetryWitness ==
    /\ mode = "CTR" /\ gen.op = "decrypt" /\ src = "wire" /\ gen.status = "done"
    /\ Len(plain) = MaxChunks
    /\ Len(plain[Len(plain)]) = 1
    /\ cipher.kind = "affine"
    /\ gen.out = plain
    /\ gen.input # plain

\* C5: the first element encrypt emits on a newly constructed CBC object
\* is the IV; decrypt stores its first input element as the chaining value
\* and neither decrypts nor emits it, so it emits one element fewer than it
\* consumes.
CBCIVFraming ==
    mode = "CBC" =>
        /\ (gen.op = "encrypt" /\ first /\ gen.out # <<>> => gen.out[1] = iv)
        /\ (gen.op = "encrypt" /\ first /\ gen.status = "done" => gen.out # <<>>)
        /\ (gen.op = "decrypt" /\ gen.pc # "start" =>
              /\ Len(gen.out) = gen.pos - 2
              /\ (gen.out = <<>> => cipher_block = gen.input[1])
              /\ (Len(gen.out) >= 1 /\ Len(gen.input) > 2 =>
                    gen.out[1] = _xor(decrypt_block(cipher, gen.input[2]), gen.input[1])))
        /\ (gen.op = "decrypt" /\ gen.status = "done" =>
              Len(gen.out) = Len(gen.input) - 1)

\* a CBC decrypt that consumed MaxChunks + 1 elements and emitted MaxChunks
CBCIVFramingWitness ==
    /\ mode = "CBC" /\ gen.op = "decrypt" /\ gen.status = "done" /\ src = "wire"
    /\ wire_first
    /\ gen.input[1] = iv
    /\ Len(gen.input) = MaxChunks + 1
    /\ Len(gen.out) = MaxChunks

\* C6: a call on an object that has served earlier calls emits what the same
\* call emits on a newly constructed object with the same arguments.
SessionIsolation ==
    gen.status \in {"done", "error"} => gen.out = FreshOutput(gen.op, gen.input)

\* C7: for a header of at most one block and k full input blocks, GCM
\* encrypt emits the header zero-extended to a block, k ciphertext blocks
\* and one tag block, k + 2 elements of block_size bytes; a longer header is
\* rejected with an error before anything is emitted.
GCMFraming ==
    (mode = "GCM" /\ gen.op = "encrypt") =>
        /\ (Len(header) > cipher.block_size =>
              gen.out = <<>> /\ (gen.pc = "start" /\ gen.status \in {"running", "error"}))
        /\ (Len(header) <= cipher.block_size /\ AllFull(gen.input) =>
              /\ gen.status # "error"
              /\ \A i \in 1..Len(gen.out) : Len(gen.out[i]) = cipher.block_size
              /\ (gen.out # <<>> =>
                    gen.out[1] = header \o Zeros(cipher.block_size - Len(header)))
              /\ \A i \in 2..Len(gen.out) :
                    i <= Len(gen.input) + 1 =>
                        gen.out[i] = _xor(gen.input[i - 1], _get_xor_block(Self, i - 1))
              /\ Len(gen.out) <= Len(gen.input) + 2
              /\ (gen.status = "done" => Len(gen.out) = Len(gen.input) + 2))

\* a finished GCM encrypt of MaxChunks full blocks under a 2-byte header
GCMFramingWitness ==
    /\ mode = "GCM" /\ gen.op = "encrypt" /\ gen.status = "done"
    /\ Len(header) = 2
    /\ AllFull(gen.input)
    /\ Len(gen.input) = MaxChunks
    /\ Len(gen.out) = MaxChunks + 2

-----------------------------------------------------------------------------
(* The field engine on its own                                             *)

\* largest width whose elements are all tried
MaxFullWidth == 4

AllOnes(n) == [i \in 1..n |-> 1]
\* x^(n-1) + x^2 + 1
TopAndFive(n) == <<1>> \o Zeros(n - 4) \o <<1, 0, 1>>

\* the integers 0 .. 2^n - 1
AllValues(n) == {NatToInt(k) : k \in 0..(PowerOfTwo(n) - 1)}

\* moduli for the small widths, passed as irreducible_polynomial
CustomPolynomial(n) ==
    CASE n = 2 -> <<2, 1, 0>>
      [] n = 3 -> <<3, 1, 0>>
      [] n = 4 -> <<4, 1, 0>>
      [] n = 5 -> <<5, 2, 0>>
      [] n = 6 -> <<6, 1, 0>>
      [] n = 7 -> <<7, 1, 0>>

\* the values tried at the widths of the table
TableValues(n) ==
    CASE n = 8 -> AllValues(8)
      [] n = 64 -> {<<>>, <<1>>, <<1, 0>>, <<1, 1>>, AllOnes(64), TopAndFive(64),
                    from_bytes(<<1, 2, 3, 4, 5, 6, 7, 255>>, "little")}
      [] n = 128 -> {<<1>>, <<1, 1>>, AllOnes(128), TopAndFive(128)}
      [] n = 256 -> {<<1>>, <<1, 1>>, TopAndFive(256)}
      [] n = 512 -> {<<1>>, TopAndFive(512)}

\* width, modulus argument and values of the elements tried
FieldCases ==
    {[n |-> n, irr |-> CustomPolynomial(n), values |-> AllValues(n)] : n \in 2..MaxFullWidth}
    \cup {[n |-> n, irr |-> <<>>, values |-> TableValues(n)] : n \in DOMAIN irreducible_polynomials}

InitField ==
    /\ mode = "none"
    /\ cipher = [kind |-> "identity", block_size |-> 2]
    /\ padding_scheme = "pkcs7"
    /\ iv = <<>> /\ nonce = <<>> /\ header = <<>>
    /\ cipher_block = <<>>
    /\ gen = NoGen
    /\ sessions = 0 /\ used = FALSE /\ first = FALSE /\ src = "none"
    /\ plain = <<>> /\ wire = <<>> /\ wire_first = FALSE
    /\ \E c \in FieldCases : \E va \in c.values, vb \in c.values :
         field = [op |-> "none", a |-> GP(c.n, va, c.irr), b |-> GP(c.n, vb, c.irr),
                  result |-> GPError]

\* a.mult(b)
FieldMult ==
    /\ field.op = "none"
    /\ field' = [field EXCEPT !.op = "mult", !.result = mult(field.a, field.b)]
    /\ UNCHANGED <<config, session>>

\* a.xor(b)
FieldXor ==
    /\ field.op = "none"
    /\ field' = [field EXCEPT !.op = "xor", !.result = xor(field.a, field.b)]
    /\ UNCHANGED <<config, session>>

NextField == FieldMult \/ FieldXor
SpecField == InitField /\ [][NextField]_vars

-----------------------------------------------------------------------------
(* Reference multiplication in GF(2)[x] / m(x): Horner's rule over the bits *)
(* of the right operand, reducing after every doubling.                    *)

\* the modulus without its leading term, as length bits
RefLow(irr_pol, n) ==
    [j \in 1..n |-> IF \E k \in 1..Len(irr_pol) : irr_pol[k] = n - j THEN 1 ELSE 0]

\* r * x modulo the modulus
RefDouble(r, low) ==
    LET n == Len(r)
        shifted == [j \in 1..n |-> IF j < n THEN r[j + 1] ELSE 0]
    IN  SubSeq([j \in 1..n |-> IF r[1] = 1 THEN BitXor(shifted[j], low[j]) ELSE shifted[j]],
               1, n)

\* r * x + (bit ? a : 0)
RefHornerStep(r, a, bit, low) ==
    LET d == RefDouble(r, low)
    IN  IF bit = 1 THEN SubSeq([j \in 1..Len(r) |-> BitXor(d[j], a[j])], 1, Len(r)) ELSE d

RECURSIVE RefHorner(_, _, _, _, _, _)
\* the steps for bits lo .. hi-1 of b, most significant first
RefHorner(r, a, b, low, lo, hi) ==
    IF hi <= lo THEN r
    ELSE IF hi = lo + 1 THEN RefHornerStep(r, a, b[lo], low)
    ELSE LET mid == (lo + hi) \div 2
             left == RefHorner(r, a, b, low, lo, mid)
         IN  IF Len(left) = 0 THEN left ELSE RefHorner(left, a, b, low, mid, hi)

\* the bits of a * b modulo the modulus of a
RefMult(a, b) ==
    RefHorner(Zeros(a.length), a.bits, b.bits, RefLow(a.irr_pol, a.length), 1, a.length + 1)

\* C8: a.mult(b) is the carry-less product of a and b reduced modulo the
\* configured irreducible polynomial, as an element of the same width and
\* modulus; with width 8 and exponents [8,4,3,1,0], 0x02 mult 0x03 = 0x06.
MultIsReference ==
    field.op = "mult" =>
        /\ field.result.ok
        /\ field.result.length = field.a.length
        /\ field.result.irr_pol = field.a.irr_pol
        /\ field.result.bits = RefMult(field.a, field.b)
        /\ (field.a.length = 8 /\ intval(field.a) = NatToInt(2) /\ intval(field.b) = NatToInt(3)
              => intval(field.result) = NatToInt(6))

\* a product of two elements of a table width whose reduction was needed
MultIsReferenceWitness ==
    /\ field.op = "mult"
    /\ field.a.length = 64
    /\ field.a.bits = AllOnes(64)
    /\ field.b.bits = TopAndFive(64)
    /\ field.result.ok

\* C9: a.mult(b) and b.mult(a) have the same integer value.
MultCommutes ==
    field.op = "mult" => intval(field.result) = intval(mult(field.b, field.a))

\* a product of two different non-trivial elements
MultCommutesWitness ==
    /\ field.op = "mult"
    /\ field.a.length = 8
    /\ intval(field.a) = NatToInt(87)
    /\ intval(field.b) = NatToInt(131)
    /\ intval(field.result) = NatToInt(193)

One(n, irr_pol) == GP(n, NatToInt(1), irr_pol)

\* C10: a.mult(one) and one.mult(a) have the bits of a, one being the
\* element built from integer 1 with the same width.
MultIdentity ==
    field.op = "mult" =>
        /\ (field.b = One(field.a.length, field.a.irr_pol)
              => field.result.ok /\ field.result.bits = field.a.bits)
        /\ (field.a = One(field.b.length, field.b.irr_pol)
              => field.result.ok /\ field.result.bits = field.b.bits)

\* a product with one of an element with its top bit set
MultIdentityWitness ==
    /\ field.op = "mult"
    /\ field.a.length = 512
    /\ field.a.bits = TopAndFive(512)
    /\ field.b = One(512, irreducible_polynomials[512])
    /\ field.result.bits = field.a.bits

-----------------------------------------------------------------------------
(* Construction of a field element from an integer, and read-back          *)

\* the mode object is not in use in the specifications of the field engine
NoModeObject ==
    /\ mode = "none"
    /\ cipher = [kind |-> "identity", block_size |-> 2]
    /\ padding_scheme = "pkcs7"
    /\ iv = <<>> /\ nonce = <<>> /\ header = <<>>
    /\ cipher_block = <<>>
    /\ gen = NoGen
    /\ sessions = 0 /\ used = FALSE /\ first = FALSE /\ src = "none"
    /\ plain = <<>> /\ wire = <<>> /\ wire_first = FALSE

RECURSIVE init_loop_Mut(_, _, _)
\* mutant: without the assertion the bits that do not fit are dropped
init_loop_Mut(bits, i, initial_value) ==
    IF initial_value <= 0 THEN [ok |-> TRUE, bits |-> bits]
    ELSE IF i < 0 THEN [ok |-> TRUE, bits |-> bits]
    ELSE init_loop_Mut([bits EXCEPT ![i + 1] = initial_value % 2], i - 1,
                       initial_value \div 2)

RECURSIVE init_loop(_, _, _)
\* while initial_value > 0: assert(i >= 0); self.bits[i] = initial_value % 2;
\* i -= 1; initial_value = initial_value >> 1       (i is 0-based)
init_loop(bits, i, initial_value) ==
    IF initial_value <= 0 THEN [ok |-> TRUE, bits |-> bits]
    ELSE IF i < 0 THEN [ok |-> FALSE, bits |-> bits]
    ELSE init_loop([bits EXCEPT ![i + 1] = initial_value % 2], i - 1,
                   initial_value \div 2)

\* GaloisPolynomial.__init__ on a machine integer, statement by statement;
\* GP above is the same constructor on the bit sequence of a non-negative value
GaloisPolynomial(num_bits, initial_value, irreducible_polynomial) ==
    IF irreducible_polynomial = <<>> /\ num_bits \notin DOMAIN irreducible_polynomials
    THEN GPError
    ELSE LET irr_pol == IF irreducible_polynomial = <<>>
                        THEN irreducible_polynomials[num_bits]
                        ELSE irreducible_polynomial
             r == init_loop(Zeros(num_bits), num_bits - 1, initial_value)
         IN  IF initial_value < 0 THEN GPError
             ELSE IF SeqMax(irr_pol) # num_bits THEN GPError
             ELSE IF ~r.ok THEN GPError
             ELSE [ok |-> TRUE, length |-> num_bits,
                   bits |-> SubSeq(r.bits, 1, num_bits), irr_pol |-> irr_pol]

\* width, modulus argument and integer of the constructions tried: every
\* integer from below zero to past the largest n-bit value
ConstructCases ==
    {[num_bits |-> n, irr |-> CustomPolynomial(n), initial_value |-> v] :
        n \in 2..MaxFullWidth, v \in -2..(2 * PowerOfTwo(MaxFullWidth) + 1)}
    \cup {[num_bits |-> 8, irr |-> <<>>, initial_value |-> v] : v \in -2..259}

InitConstruct ==
    /\ NoModeObject
    /\ \E c \in ConstructCases :
         field = [op |-> "none", num_bits |-> c.num_bits, irr |-> c.irr,
                  initial_value |-> c.initial_value, a |-> GPError, result |-> <<>>]

\* a = GaloisPolynomial(num_bits, initial_value, irr)
Construct ==
    /\ field.op = "none"
    /\ field' = [field EXCEPT !.op = "init",
                   !.a = GaloisPolynomial(field.num_bits, field.initial_value, field.irr)]
    /\ UNCHANGED <<config, session>>

\* a.intval()
ReadBack ==
    /\ field.op = "init"
    /\ field.a.ok
    /\ field' = [field EXCEPT !.op = "intval", !.result = intval(field.a)]
    /\ UNCHANGED <<config, session>>

NextConstruct == Construct \/ ReadBack
SpecConstruct == InitConstruct /\ [][NextConstruct]_vars

\* C11: constructing an n-bit element from an integer v succeeds exactly
\* when 0 <= v < 2^n and fails otherwise; an accepted element holds exactly
\* n bits, most significant first, and intval() of it returns v.
ConstructionRange ==
    field.op \in {"init", "intval"} =>
        LET n == field.num_bits
            v == field.initial_value
        IN  /\ field.a.ok <=> (0 <= v /\ v < PowerOfTwo(n))
            /\ (field.a.ok =>
                  /\ field.a.length = n
                  /\ Len(field.a.bits) = n
                  /\ \A i \in 1..n : field.a.bits[i] = (v \div PowerOfTwo(n - i)) % 2
                  /\ field.a = GP(n, NatToInt(v), field.irr))
            /\ (~field.a.ok => field.a = GPError)
            /\ (field.op = "intval" => field.result = NatToInt(v))

\* the value 200 built as an 8-bit element and read back
ConstructionRangeWitness ==
    /\ field.op = "intval"
    /\ field.num_bits = 8
    /\ field.initial_value = 200
    /\ field.a.bits = <<1, 1, 0, 0, 1, 0, 0, 0>>
    /\ field.result = NatToInt(200)

-----------------------------------------------------------------------------
(* Further properties of the modes                                         *)

\* C12: GCM encrypt that receives a final chunk shorter than block_size
\* fails with an error; it emits neither a ciphertext element shorter than
\* a block nor a tag after it.
ShortChunkRejected ==
    (mode = "GCM" /\ gen.op = "encrypt" /\ Len(header) <= cipher.block_size
       /\ ~AllFull(gen.input)) =>
        /\ \A i \in 1..Len(gen.out) : Len(gen.out[i]) = cipher.block_size
        /\ gen.status # "done"

-----------------------------------------------------------------------------
(* ECB and CBC encrypt with padding collaborators that keep or break the   *)
(* length contract                                                         *)

PaddingSchemes == {"pkcs7", "empty", "unpadded", "three_blocks"}

InitPadding ==
    /\ mode \in {"ECB", "CBC"}
    /\ cipher \in CiphersOf(mode)
    /\ padding_scheme \in PaddingSchemes
    /\ iv \in (IF mode = "CBC" THEN IVs ELSE {<<>>})
    /\ nonce = <<>>
    /\ header = <<>>
    /\ cipher_block = <<>>
    /\ gen = NoGen
    /\ sessions = 0 /\ used = FALSE /\ first = FALSE /\ src = "none"
    /\ plain = <<>> /\ wire = <<>> /\ wire_first = FALSE
    /\ field = NoField

NextPadding == StartEncrypt \/ Pull
SpecPadding == InitPadding /\ [][NextPadding]_vars

\* the padded final chunk of the current call
PaddedFinal ==
    padding_apply(padding_scheme, cipher.block_size, gen.input[Len(gen.input)])

\* its length is neither one block nor two
PaddingViolated ==
    Len(PaddedFinal) # cipher.block_size /\ Len(PaddedFinal) # 2 * cipher.block_size

\* what the same call emits on a new object whose padding keeps the contract
WellPaddedOutput ==
    Drive([Fresh EXCEPT !.padding_scheme = "pkcs7"], NewGen("encrypt", gen.input)).g.out

\* C13: in ECB and CBC encrypt, when apply returns for the final chunk a
\* length that is neither block_size nor 2 * block_size, the call raises an
\* error at the final chunk and emits no element for it, and the elements
\* emitted before it are the ones a well-behaved padding would have given;
\* with a length of one or two blocks the call raises nothing.
PaddingViolationFatal ==
    (mode \in {"ECB", "CBC"} /\ gen.op = "encrypt") =>
        /\ (~PaddingViolated => gen.status # "error")
        /\ (PaddingViolated =>
              /\ gen.status # "done"
              /\ gen.pos <= Len(gen.input)
              /\ (gen.status = "error" => gen.pos = Len(gen.input))
              /\ (first =>
                    /\ IsPrefix(gen.out, WellPaddedOutput)
                    /\ Len(gen.out) < Len(WellPaddedOutput)
                    /\ (gen.status = "error" =>
                          Len(gen.out) = Len(WellPaddedOutput) - 1)))

\* CBC encrypt that failed on a final chunk padded to three blocks, after
\* the IV and the ciphertext of the blocks before it were emitted
PaddingViolationFatalWitness ==
    /\ mode = "CBC" /\ gen.op = "encrypt" /\ first
    /\ padding_scheme = "three_blocks"
    /\ Len(PaddedFinal) = 3 * cipher.block_size
    /\ gen.status = "error"
    /\ Len(gen.input) = MaxChunks
    /\ Len(gen.out) = MaxChunks
    /\ gen.out[1] = iv

-----------------------------------------------------------------------------
(* Field addition, on operands of equal and of different widths            *)

\* values tried at the table widths in the addition laws
AddValues(n) ==
    CASE n = 8 -> {<<>>, <<1>>, NatToInt(83), NatToInt(202), AllOnes(8)}
      [] n = 64 -> TableValues(64)
      [] OTHER -> TableValues(n) \cup {<<>>}

\* widths of operand pairs that do not match (table widths, and small widths
\* with a supplied modulus)
MismatchedWidths == {<<8, 64>>, <<64, 8>>, <<64, 128>>, <<512, 256>>, <<2, 3>>, <<3, 2>>}

ModulusArgument(n) == IF n \in DOMAIN irreducible_polynomials THEN <<>> ELSE CustomPolynomial(n)

ValuesOfWidth(n) == IF n \in DOMAIN irreducible_polynomials THEN AddValues(n) ELSE AllValues(n)

InitAdd ==
    /\ NoModeObject
    /\ \/ \E c \in FieldCases :
            \E va \in ValuesOfWidth(c.n), vb \in ValuesOfWidth(c.n), vc \in ValuesOfWidth(c.n) :
               field = [op |-> "none", a |-> GP(c.n, va, c.irr), b |-> GP(c.n, vb, c.irr),
                        c |-> GP(c.n, vc, c.irr), result |-> GPError]
       \/ \E w \in MismatchedWidths :
            \E va \in ValuesOfWidth(w[1]), vb \in ValuesOfWidth(w[2]) :
               field = [op |-> "none", a |-> GP(w[1], va, ModulusArgument(w[1])),
                        b |-> GP(w[2], vb, ModulusArgument(w[2])),
                        c |-> GP(w[1], va, ModulusArgument(w[1])), result |-> GPError]

SpecAdd == InitAdd /\ [][NextField]_vars

\* the element of the width and modulus of a with all bits zero
ZeroLike(a) == [ok |-> TRUE, length |-> a.length, bits |-> Zeros(a.length), irr_pol |-> a.irr_pol]

\* C14: xor of two elements of the same width is the bitwise XOR of their
\* bits as an element of that width; it is commutative, associative and
\* self-inverse; xor and mult of elements of different widths are rejected
\* with an error.
XorLaws ==
    /\ (field.op = "xor" /\ field.a.length = field.b.length =>
          /\ field.result.ok
          /\ field.result.length = field.a.length
          /\ Len(field.result.bits) = field.a.length
          /\ \A i \in 1..field.a.length :
                field.result.bits[i] = (IF field.a.bits[i] = field.b.bits[i] THEN 0 ELSE 1)
          /\ field.result.bits = xor(field.b, field.a).bits
          /\ xor(field.result, field.c) = xor(field.a, xor(field.b, field.c))
          /\ xor(field.a, field.a) = ZeroLike(field.a)
          /\ (field.a = field.b => field.result = ZeroLike(field.a)))
    /\ (field.op \in {"xor", "mult"} /\ field.a.length # field.b.length =>
          ~field.result.ok)

\* the sum of two different 64-bit elements
XorLawsWitness ==
    /\ field.op = "xor"
    /\ field.a.length = 64 /\ field.b.length = 64
    /\ field.a.bits = AllOnes(64)
    /\ field.b.bits = TopAndFive(64)
    /\ field.c.bits = TopAndFive(64)
    /\ field.result.bits = <<0>> \o AllOnes(60) \o <<0, 1, 0>>

-----------------------------------------------------------------------------
(* mult, one iteration of its reduction loop at a time                     *)

\* moduli whose highest exponent is the width, irreducible or not
ReduceModuli(n) ==
    IF n \in DOMAIN irreducible_polynomials THEN {<<>>}
    ELSE {CustomPolynomial(n), <<n>>, <<n, 0>>, <<0, n - 1, n>>}

InitReduce ==
    /\ NoModeObject
    /\ \E c \in FieldCases : \E irr \in ReduceModuli(c.n) :
         \E va \in ValuesOfWidth(c.n), vb \in ValuesOfWidth(c.n) :
            field = [op |-> "none", a |-> GP(c.n, va, irr), b |-> GP(c.n, vb, irr),
                     i |-> 0, ip |-> <<>>, prev |-> <<>>, result |-> GPError]

\* mult up to the reduction loop: the sum of the shifted copies
ReduceStart ==
    /\ field.op = "none"
    /\ field.a.ok /\ field.b.ok /\ field.a.length = field.b.length
    /\ \E ip \in {intermediate_polynomial(field.a, field.b)} :
         field' = [field EXCEPT !.op = "reducing", !.i = 0, !.ip = ip, !.prev = ip]
    /\ UNCHANGED <<config, session>>

\* one iteration of for i in range(expected_length - self.length)
ReduceIterate ==
    /\ field.op = "reducing"
    /\ field.i < 2 * field.a.length - field.a.length
    /\ field' = [field EXCEPT !.i = @ + 1, !.prev = field.ip,
                   !.ip = ReduceStep(field.a, irr_pol_list(field.a), field.ip, field.i)]
    /\ UNCHANGED <<config, session>>

\* after the loop: the assertion on the upper half, and the output element
ReduceFinish ==
    /\ field.op = "reducing"
    /\ field.i = 2 * field.a.length - field.a.length
    /\ field' = [field EXCEPT !.op = "reduced",
                   !.result = IF \E j \in 1..field.a.length : field.ip[j] # 0 THEN GPError
                              ELSE [ok |-> TRUE, length |-> field.a.length,
                                    bits |-> SubSeq(field.ip, field.a.length + 1,
                                                    2 * field.a.length),
                                    irr_pol |-> field.a.irr_pol]]
    /\ UNCHANGED <<config, session>>

NextReduce == ReduceStart \/ ReduceIterate \/ ReduceFinish
SpecReduce == InitReduce /\ [][NextReduce]_vars

\* C15: the reduction loop of mult runs exactly n steps; after the step for
\* position i the bits 0..i of the 2n-bit intermediate are zero and the
\* step changed only bits from position i down to the end of the aligned
\* modulus; after the loop the top n bits are zero, the assertion holds and
\* the result is that of mult.
ReductionInvariant ==
    field.op \in {"reducing", "reduced"} =>
        LET n == field.a.length
        IN  /\ field.i <= n
            /\ Len(field.ip) = 2 * n
            /\ \A j \in 1..field.i : field.ip[j] = 0
            /\ \A j \in 1..(2 * n) :
                  (j < field.i \/ j > field.i + n) => field.ip[j] = field.prev[j]
            /\ (field.op = "reduced" =>
                  /\ field.i = n
                  /\ field.result.ok
                  /\ field.result = mult(field.a, field.b))

\* a step of a 64-bit reduction that found its bit set and removed it
ReductionInvariantWitness ==
    /\ field.op = "reducing"
    /\ field.a.length = 64
    /\ field.i = 2
    /\ field.a.bits = AllOnes(64)
    /\ field.b.bits = AllOnes(64)
    /\ field.prev[2] = 1
    /\ field.ip[2] = 0
    /\ field.ip # field.prev


RECURSIVE CBCReference(_, _, _)
\* textbook CBC over the chunks from position pos on: every block is
\* E(block XOR chaining value); a final chunk padded to two blocks gives one
\* element holding both ciphertext blocks, the second chained on the first
CBCReference(chain, input, pos) ==
    LET bs == cipher.block_size
        block == padding_apply(padding_scheme, bs, input[pos])
        c == encrypt_block(cipher, _xor(input[pos], chain))
        c1 == encrypt_block(cipher, _xor(SubSeq(block, 1, bs), chain))
        c2 == encrypt_block(cipher, _xor(SubSeq(block, bs + 1, 2 * bs), c1))
    IN  IF pos < Len(input) THEN <<c>> \o CBCReference(c, input, pos + 1)
        ELSE IF Len(block) = bs THEN <<c1>>
        ELSE <<c1 \o c2>>

\* the IV, then the ciphertext chained from the IV
CBCExpected(input) == <<iv>> \o CBCReference(iv, input, 1)

\* C16: in CBC encrypt every block is encrypted as encrypt_block(block XOR
\* chaining value), the chaining value being the IV for the first block and
\* the previous ciphertext block afterwards; a final chunk padded to two
\* blocks is encrypted first block against the chaining value, second block
\* against the ciphertext of the first, and both are emitted in that order.
CBCChaining ==
    (mode = "CBC" /\ gen.op = "encrypt") =>
        /\ gen.status # "error"
        /\ IsPrefix(gen.out, CBCExpected(gen.input))
        /\ (gen.status = "done" => gen.out = CBCExpected(gen.input))

\* the same for the first call on a newly constructed object
CBCChainingNewObject ==
    (mode = "CBC" /\ gen.op = "encrypt" /\ first) =>
        /\ gen.status # "error"
        /\ IsPrefix(gen.out, CBCExpected(gen.input))
        /\ (gen.status = "done" => gen.out = CBCExpected(gen.input))


\* (header_length << (bitwidth / 2)) | block_count as an integer; the two
\* parts do not overlap while block_count has at most bitwidth / 2 bits
LengthElement(header_length, block_count, bitwidth) ==
    LET low == NatToInt(block_count)
    IN  IF header_length = 0 THEN low
        ELSE NatToInt(header_length) \o Zeros((bitwidth \div 2) - Len(low)) \o low

\* the tag block that finalization gives from the accumulator of g for a
\* given block count: ((accumulator XOR length element) * H) XOR EK_nonce
TagFor(g, block_count) ==
    LET num_bits == 8 * cipher.block_size
        length_element == GP(num_bits, LengthElement(Len(header), block_count, num_bits), <<>>)
    IN  to_bytes(intval(xor(mult(xor(g.rolling_polynomial, length_element), g.Ek_0),
                            g.ek_nonce)),
                 cipher.block_size, "little")

\* the data blocks processed in the stream of g
DataBlocks(g) == IF g.op = "encrypt" THEN Len(g.input) ELSE Len(g.input) - 2

\* the value of the counter after the data blocks of g
CounterAfter(g) == DataBlocks(g) + 1

\* the finalization property on streams of full blocks, for a given block
\* count
Finalized(block_count) ==
    /\ (mode = "GCM" /\ gen.op = "encrypt" /\ gen.pc = "after_tag"
           /\ AllFull(gen.input) =>
          gen.out[Len(gen.out)] = TagFor(gen, block_count))
    /\ (mode = "GCM" /\ gen.op = "decrypt" /\ gen.status = "done"
           /\ AllFull(gen.input) =>
          (gen.verified = "Message verified correctly"
             <=> gen.input[Len(gen.input)] = TagFor(gen, block_count)))

\* C17: after the last data block GCM encrypt and decrypt xor into the
\* accumulator the length element (header_length << (bitwidth/2)) |
\* block_count, block_count being the number of data blocks processed,
\* multiply by H, and the tag is the result XOR EK_nonce.
GCMFinalization == Finalized(DataBlocks(gen))

\* the same with the counter, one more than the number of data blocks, in
\* the place of block_count
GCMFinalizationCounter == Finalized(CounterAfter(gen))


\* the plaintext blocks GCM decrypt has emitted are the decryptions of the
\* input elements after the header, the last element excluded
EmittedBeforeTag ==
    \A i \in 1..Len(gen.out) :
        /\ i <= Len(gen.input) - 2
        /\ gen.out[i] = _xor(gen.input[i + 1], _get_xor_block(Self, i))

\* the tag comparison has been made
Compared == gen.verified # "none"

\* C18: in GCM decrypt the last input element is never decrypted or
\* emitted; the tag comparison is made only after every plaintext block has
\* been emitted, in the resumption that ends the output sequence, so a
\* consumer that stops pulling earlier never triggers it; the comparison,
\* failed or not, raises no error and leaves the emitted blocks unchanged.
GCMDecryptOrdering ==
    /\ [](mode = "GCM" /\ gen.op = "decrypt" =>
            /\ EmittedBeforeTag
            /\ (gen.status = "running" => ~Compared)
            /\ (Compared => gen.status = "done" /\ Len(gen.out) = Len(gen.input) - 2)
            /\ (gen.status = "done" => Compared))
    /\ [][(mode = "GCM" /\ gen.op = "decrypt" /\ gen'.op = "decrypt"
             /\ ~Compared /\ gen'.verified # "none") =>
            /\ gen.status = "running"
            /\ gen'.status = "done"
            /\ Len(gen.out) = Len(gen.input) - 2
            /\ gen'.out = gen.out]_vars

\* a failed comparison after MaxChunks plaintext blocks were emitted
GCMDecryptOrderingWitness ==
    /\ mode = "GCM" /\ gen.op = "decrypt" /\ src = "tampered"
    /\ gen.status = "done"
    /\ gen.verified = "Message not verified"
    /\ Len(gen.input) = MaxChunks + 2
    /\ Len(gen.out) = MaxChunks
    /\ EmittedBeforeTag

-----------------------------------------------------------------------------
(* The counter modes on long streams and on counters at the edge of their  *)
(* width                                                                   *)

\* chunks in the longest stream: one more than a one-byte counter can count
LongStream == 257

\* block number k of a stream of blocks of bs bytes
StreamBlock(k, bs) == [p \in 1..bs |-> (7 * k + 31 * p) % 256]

\* streams of len blocks; the last chunk of an odd-length stream is one byte
LongStreamOf(len, bs) ==
    [k \in 1..len |-> IF k = len /\ len % 2 = 1 THEN <<k % 256>> ELSE StreamBlock(k, bs)]

\* CTR objects: nonces of half a block, and nonces that are not (with a
\* 4-byte block the counter would need 3 bytes beside a 1-byte nonce);
\* GCM objects: a nonce of half a block and one a byte short
CounterObjects ==
    {[mode |-> "CTR", cipher |-> [kind |-> k, block_size |-> 2], nonce |-> n] :
        k \in {"identity", "rotate", "affine"}, n \in {<<0>>, <<9>>}}
    \cup {[mode |-> "CTR", cipher |-> [kind |-> "affine", block_size |-> 2], nonce |-> n] :
            n \in {<<>>, <<1, 2>>}}
    \cup {[mode |-> "CTR", cipher |-> [kind |-> "affine", block_size |-> 4], nonce |-> n] :
            n \in {<<9>>, <<1, 2>>, <<1, 2, 3>>}}
    \cup {[mode |-> "GCM", cipher |-> [kind |-> k, block_size |-> 8], nonce |-> n] :
            k \in {"affine", "incr"}, n \in {<<1, 2, 3, 4>>, <<1, 2, 3>>}}

\* stream lengths tried for a mode: short, and up to and past 256 chunks
LongLengths(m) ==
    IF m = "CTR" THEN {1, 2, LongStream - 1, LongStream} ELSE {2, LongStream - 1}

\* counters at which the keystream function is applied on its own: small
\* ones, the last that fits one byte and the first that does not, the last
\* that fits four bytes and the first that does not
CounterSamples ==
    {<<>>, <<1>>, NatToInt(255), NatToInt(256), NatToInt(65535), NatToInt(65536),
     AllOnes(32), <<1>> \o Zeros(32)}

InitCounter ==
    /\ \E o \in CounterObjects :
         /\ mode = o.mode
         /\ cipher = o.cipher
         /\ nonce = o.nonce
    /\ padding_scheme = "pkcs7"
    /\ iv = <<>>
    /\ header = (IF mode = "GCM" THEN <<5, 6>> ELSE <<>>)
    /\ cipher_block = <<>>
    /\ gen = NoGen
    /\ sessions = 0 /\ used = FALSE /\ first = FALSE /\ src = "none"
    /\ plain = <<>> /\ wire = <<>> /\ wire_first = FALSE
    /\ field = NoField

\* encrypt(block_iterator) on a long stream, once
StartLongEncrypt ==
    /\ sessions = 0
    /\ field.op = "none"
    /\ \E len \in LongLengths(mode) :
          Call("encrypt", LongStreamOf(len, cipher.block_size), "plain")

\* _get_xor_block(counter) on its own
Keystream ==
    /\ sessions = 0
    /\ field.op = "none"
    /\ \E c \in CounterSamples :
          field' = [op |-> "keystream", a |-> GPError, b |-> GPError, counter |-> c,
                    result |-> _get_xor_block_int(Self, c)]
    /\ UNCHANGED <<config, session>>

NextCounter == StartLongEncrypt \/ Pull \/ StartDecryptWire \/ Keystream
SpecCounter == InitCounter /\ [][NextCounter]_vars

\* big-endian(k, width) as bytes, computed on the number
BigEndian(k, width) == [p \in 1..width |-> (k \div PowerOfTwo(8 * (width - p))) % 256]

\* encrypt_block(nonce || big-endian(k)) with the counter filling the block
KeystreamOf(k) ==
    encrypt_block(cipher, nonce \o BigEndian(k, cipher.block_size - Len(nonce)))

\* the value of a counter given as an integer fits the bytes beside the nonce
FitsCounter(c) == Len(c) <= 8 * Len(nonce)

\* nonce and counter fill exactly one block
HalfBlockNonce == Len(nonce) + Len(nonce) = cipher.block_size


RECURSIVE BitsValue(_)
\* the number a bit sequence stands for
BitsValue(c) == IF c = <<>> THEN 0 ELSE 2 * BitsValue(SubSeq(c, 1, Len(c) - 1)) + c[Len(c)]

\* _get_xor_block applied on its own: it fails exactly when the counter
\* does not fit the bytes beside the nonce or nonce and counter do not fill
\* a block; otherwise it is the encryption of nonce || big-endian(counter),
\* and it is the keystream block of counter 0 only for counter 0
KeystreamAtEdge ==
    field.op = "keystream" =>
        /\ (field.result = <<>>) <=> (~FitsCounter(field.counter) \/ ~HalfBlockNonce)
        /\ (field.result # <<>> =>
              /\ (Len(field.counter) <= 17 =>
                    field.result = KeystreamOf(BitsValue(field.counter)))
              /\ (field.result = _get_xor_block_int(Self, <<>>) => field.counter = <<>>))

\* data blocks GCM encrypt or decrypt has processed so far
DataProcessed ==
    IF gen.op = "decrypt" THEN Len(gen.out)
    ELSE IF Len(gen.out) - 1 < Len(gen.input) THEN Len(gen.out) - 1
    ELSE Len(gen.input)

\* C19: in GCM encrypt and decrypt the j-th data block (j = 1, 2, ...) is
\* XORed with encrypt_block(nonce || big-endian(j)); the input for counter 0
\* only gives EK_nonce; no data block meets the keystream of counter 0; a
\* counter that no longer fits its width raises an error and does not wrap.
CounterZeroReserved ==
    /\ (mode = "GCM" /\ gen.op # "none" /\ HalfBlockNonce =>
          /\ gen.status # "error"
          /\ (gen.pc # "start" =>
                /\ gen.ek_nonce = GP(8 * cipher.block_size,
                                     from_bytes(KeystreamOf(0), "little"), <<>>)
                /\ gen.counter = DataProcessed + 1)
          /\ (gen.op = "encrypt" =>
                \A i \in 2..Len(gen.out) :
                    i <= Len(gen.input) + 1 =>
                        /\ gen.out[i] = _xor(gen.input[i - 1], KeystreamOf(i - 1))
                        /\ KeystreamOf(i - 1) # KeystreamOf(0))
          /\ (gen.op = "decrypt" =>
                \A i \in 1..Len(gen.out) :
                    /\ gen.out[i] = _xor(gen.input[i + 1], KeystreamOf(i))
                    /\ KeystreamOf(i) # KeystreamOf(0)))
    /\ (mode = "GCM" => KeystreamAtEdge)

\* a GCM encrypt whose 256th data block used the counter 256 = 00 00 01 00
CounterZeroReservedWitness ==
    /\ mode = "GCM" /\ gen.op = "encrypt" /\ gen.status = "done" /\ HalfBlockNonce
    /\ Len(gen.input) >= 256
    /\ BigEndian(256, 4) = <<0, 0, 1, 0>>
    /\ gen.out[257] = _xor(gen.input[256], KeystreamOf(256))
    /\ gen.out[257] # _xor(gen.input[256], KeystreamOf(0))

\* C20: in one CTR call chunk i (i = 0, 1, ...) is XORed with
\* encrypt_block(nonce || big-endian(i, block_size - len(nonce))) cut to the
\* chunk's length; the counter goes up by one per chunk from 0, so the
\* cipher inputs used are pairwise distinct; when the counter no longer
\* fits, or nonce and counter do not fill a block, the call fails with an
\* error and emits nothing from a reused keystream input.
CTRCounter ==
    /\ (mode = "CTR" /\ gen.op # "none" /\ HalfBlockNonce =>
          /\ gen.counter = Len(gen.out)
          /\ \A i \in 1..Len(gen.out) :
                /\ i - 1 < PowerOfTwo(8 * Len(nonce))
                /\ Len(gen.out[i]) = Len(gen.input[i])
                /\ gen.out[i] = _xor(gen.input[i],
                                     SubSeq(KeystreamOf(i - 1), 1, Len(gen.input[i])))
          /\ (gen.status = "error" =>
                /\ Len(gen.out) = PowerOfTwo(8 * Len(nonce))
                /\ Len(gen.input) > Len(gen.out))
          /\ (gen.status = "done" => Len(gen.out) = Len(gen.input))
          /\ (gen.status # "running" =>
                \A i \in 1..Len(gen.out) : \A j \in (i + 1)..Len(gen.out) :
                    nonce \o BigEndian(i - 1, cipher.block_size - Len(nonce))
                      # nonce \o BigEndian(j - 1, cipher.block_size - Len(nonce))))
    /\ (mode = "CTR" /\ gen.op # "none" /\ ~HalfBlockNonce =>
          /\ gen.out = <<>>
          /\ gen.status # "done"
          /\ (gen.status = "running" => gen.pos = 1))
    /\ (mode = "CTR" => KeystreamAtEdge)

\* a CTR encrypt of 257 chunks with a one-byte counter that failed after
\* emitting 256
CTRCounterWitness ==
    /\ mode = "CTR" /\ gen.op = "encrypt" /\ HalfBlockNonce
    /\ Len(nonce) = 1
    /\ gen.status = "error"
    /\ Len(gen.input) = 257
    /\ Len(gen.out) = 256
    /\ gen.counter = 256

=============================================================================
